---- MODULE Spec2Model ----
(***************************************************************************)
(* Audit log of wagtail.admin: the log-entry store (LogEntryManager and    *)
(* LogEntry), the log-action registry (LogActionRegistry) and the          *)
(* management command convert_revisions_to_log_entries, which backfills    *)
(* log entries from page revisions.                                        *)
(*                                                                         *)
(* Three specifications share the variables below:                         *)
(*   SpecBackfill  runs of Command.handle over a revision table,           *)
(*   SpecLog       calls of log_action, get_for_model and LogEntry.data,   *)
(*   SpecRegistry  get_actions/get_choices/get_messages calls of several   *)
(*                 request threads on one registry.                        *)
(***************************************************************************)
EXTENDS Integers, Sequences, FiniteSets, TLC

\* ------------------------------------------------------------------ bounds
MaxRevs == 3        \* revisions in the PageRevision table
MaxPointers == 1    \* snapshots whose live_revision names a revision
MaxLogged == 1      \* revisions that have a log entry before the first run
MaxRuns == 2        \* runs of the backfill command
MaxRows == 2        \* rows the callers of SpecLog write to the log
MaxThreads == 2     \* request threads that use the registry

Revs == 1..MaxRevs
PageIds == {1, 2}
Titles == {"t1", "t2"}

\* NULL of an id column, and None of an id-valued snapshot field
Null == 0

\* ------------------------------------------------------ python values, JSON
\* A Python str is a sequence of one-character strings, a dict a sequence of
\* <<key, value>> pairs of strs.
PyStr(s) == [t |-> "str", v |-> s]
PyDict(items) == [t |-> "dict", v |-> items]
EmptyStr == PyStr(<< >>)
EmptyDict == PyDict(<< >>)

Quote(s) == <<"\"">> \o s \o <<"\"">>

RECURSIVE DumpItems(_)
DumpItems(items) ==
    IF items = << >> THEN << >>
    ELSE Quote(Head(items)[1]) \o <<":", " ">> \o Quote(Head(items)[2])
         \o (IF Len(items) > 1 THEN <<",", " ">> ELSE << >>)
         \o DumpItems(Tail(items))

\* json.dumps
JsonDumps(value) ==
    IF value.t = "str" THEN Quote(value.v)
    ELSE <<"{">> \o DumpItems(value.v) \o <<"}">>

\* the position of the first quote character of text at or after i (0: none)
RECURSIVE NextQuote(_, _)
NextQuote(text, i) ==
    IF i > Len(text) THEN 0
    ELSE IF text[i] = "\"" THEN i
    ELSE NextQuote(text, i + 1)

\* the strs of text from position i on, in order
RECURSIVE ParseStrings(_, _)
ParseStrings(text, i) ==
    LET open == NextQuote(text, i)
        close == IF open = 0 THEN 0 ELSE NextQuote(text, open + 1)
    IN  IF open = 0 \/ close = 0 THEN << >>
        ELSE <<SubSeq(text, open + 1, close - 1)>> \o ParseStrings(text, close + 1)

RECURSIVE PairUp(_)
PairUp(strs) ==
    IF Len(strs) < 2 THEN << >>
    ELSE << <<strs[1], strs[2]>> >> \o PairUp(SubSeq(strs, 3, Len(strs)))

\* json.loads, of the texts json.dumps writes for strs and flat dicts of strs
JsonLoads(text) ==
    IF Head(text) = "{" THEN PyDict(PairUp(ParseStrings(text, 1)))
    ELSE PyStr(SubSeq(text, 2, Len(text) - 1))


\* ---------------------------------------------------------------- variables
VARIABLES
    \* the database
    revisions,          \* PageRevision rows: revision id -> [page_id, created_at, user, content]
    page_live,          \* Page.live_revision_id: page id -> revision id or Null
    log_entries,        \* LogEntry rows, in insertion order
    \* Command.handle
    pc,                 \* "idle", "loop", "done" or "crashed"
    queue,              \* what is left of the revision iterator
    current_page_id,
    previous_revision_content,
    revisions_that_were_once_live,
    revision_that_got_log_entries,
    error,              \* the exception that ended the run, "" when none
    runs,               \* runs started so far
    entries_at_start,   \* log_entries when the current run started
    visited,            \* revisions the current run's loop has taken from the iterator
    first_run_ok,       \* the run before the current one completed without an exception
    \* callers of the log store
    ret,                \* the last call of SpecLog and what it returned
    \* LogActionRegistry and the request threads that use it
    has_scanned_for_actions,
    actions,
    choices,
    messages,
    tpc,                \* thread -> "idle", "scanning" or "returned"
    tmethod,            \* thread -> the getter it called
    thook,              \* thread -> index of the hook callback it is running
    tcall,              \* thread -> index of the callback's next register_action call (0: not yet invoked)
    invoked,            \* hook index -> times the callback was invoked
    registered          \* every register_action call made, in order

dbvars == <<revisions, page_live, log_entries>>
cmdvars == <<pc, queue, current_page_id, previous_revision_content,
             revisions_that_were_once_live, revision_that_got_log_entries,
             error, runs, entries_at_start, visited, first_run_ok>>
regvars == <<has_scanned_for_actions, actions, choices, messages,
             tpc, tmethod, thook, tcall, invoked, registered>>
vars == <<dbvars, cmdvars, ret, regvars>>

\* ------------------------------------------------------------ the log store
NowTime == 99       \* what timezone.now() returns

\* the keyword arguments log_action names itself in its call of create()
CreateKeywords == {"content_type", "object_id", "object_title", "action",
                   "timestamp", "data_json"}
\* the other fields of LogEntry, which a caller may pass through **kwargs
PassThroughFields == {"user", "revision", "created", "published", "unpublished",
                      "content_changed", "deleted"}

NoKwargs == [k \in {} |-> Null]

KwGet(kwargs, key, default) ==
    IF key \in DOMAIN kwargs THEN kwargs[key] ELSE default

NoRow == [content_type |-> "", object_id |-> Null, object_title |-> "",
          action |-> "", timestamp |-> Null, data_json |-> << >>,
          user |-> Null, revision |-> Null, created |-> FALSE,
          published |-> FALSE, unpublished |-> FALSE,
          content_changed |-> FALSE, deleted |-> FALSE]

\* LogEntry.objects.create(**fields): the model's field defaults, then the fields given
CreateRow(fields) ==
    [f \in DOMAIN NoRow |-> IF f \in DOMAIN fields THEN fields[f] ELSE NoRow[f]]

Raised(exc) == [raised |-> TRUE, exc |-> exc, row |-> NoRow]
Returned(row) == [raised |-> FALSE, exc |-> "", row |-> row]

\* log_action with **kwargs forgotten in the call of create()
LogActionDropsKwargs(instance, action, kwargs, now) ==
    LET title == KwGet(kwargs, "title", "")
    IN  Returned(CreateRow(
            [content_type |-> instance.content_type,
             object_id |-> instance.pk,
             object_title |-> IF title = ""
                              THEN IF instance.has_display_title
                                   THEN instance.display_title ELSE instance.str
                              ELSE title,
             action |-> action,
             timestamp |-> now,
             data_json |-> JsonDumps(KwGet(kwargs, "data", EmptyStr))]))

\* LogEntryManager.log_action
LogAction(instance, action, kwargs, now) ==
    LET data == KwGet(kwargs, "data", EmptyStr)
        given == KwGet(kwargs, "title", "")
        title == IF given = ""
                 THEN IF instance.has_display_title
                      THEN instance.display_title ELSE instance.str
                 ELSE given
        rest == [k \in DOMAIN kwargs \ {"data", "title"} |-> kwargs[k]]
        named == [content_type |-> instance.content_type,
                  object_id |-> instance.pk,
                  object_title |-> title,
                  action |-> action,
                  timestamp |-> now,
                  data_json |-> JsonDumps(data)]
    IN  IF DOMAIN rest \cap CreateKeywords # {}
        THEN Raised("TypeError")   \* create() got multiple values for a keyword argument
        ELSE IF ~(DOMAIN rest \subseteq PassThroughFields)
        THEN Raised("TypeError")   \* LogEntry() got an unexpected keyword argument
        ELSE Returned(CreateRow(rest @@ named))

\* LogEntry.data
Data(row) ==
    IF row.data_json # << >> THEN JsonLoads(row.data_json) ELSE EmptyDict

\* LogEntryManager.get_for_model, over the rows of the table; the result is the set
\* of positions of the rows of the queryset
GetForModel(model, rows) ==
    IF model.kind # "class"
    THEN [raised |-> TRUE, exc |-> "TypeError", rows |-> {}]   \* issubclass() arg 1 must be a class
    ELSE IF ~model.is_model
    THEN [raised |-> FALSE, exc |-> "", rows |-> {}]
    ELSE [raised |-> FALSE, exc |-> "",
          rows |-> {i \in 1..Len(rows) : rows[i].content_type = model.content_type}]


\* ------------------------------------------------------- the revision table
\* the snapshot fields Command.handle deletes before it compares two snapshots
IgnoredFields == {"live", "has_unpublished_changes", "url_path", "path", "depth",
                  "numchild", "latest_revision_created_at", "live_revision",
                  "draft_title", "owner", "locked"}

\* a snapshot written before Page had a live_revision field carries no such key
Absent == -1

\* json.loads(revision.content_json): the page's fields when the revision was saved.
\* live_revision is the page's live revision then (Null: none).
Snapshot(title, live_revision) ==
    [f \in ({"title"} \cup IgnoredFields)
           \ (IF live_revision = Absent THEN {"live_revision"} ELSE {}) |->
        CASE f = "title" -> title
          [] f = "live_revision" -> live_revision
          [] f = "live" -> (live_revision > Null)
          [] OTHER -> Null]

\* revision.page.specific, as log_action reads it
PageInstance(page_id) ==
    [content_type |-> "page", pk |-> page_id, has_display_title |-> TRUE,
     display_title |-> "a page", str |-> "Page object"]

\* r comes before q in order_by('page_id', 'created_at')
Before(revs, r, q) ==
    \/ revs[r].page_id < revs[q].page_id
    \/ /\ revs[r].page_id = revs[q].page_id
       /\ revs[r].created_at < revs[q].created_at

\* PageRevision.objects.order_by('page_id', 'created_at'): the ids of ids in that order
RECURSIVE OrderBy(_, _)
OrderBy(revs, ids) ==
    IF ids = {} THEN << >>
    ELSE LET first == CHOOSE r \in ids : \A q \in ids \ {r} : Before(revs, r, q)
         IN  <<first>> \o OrderBy(revs, ids \ {first})

\* LogEntry.objects.filter(revision=revision).exists()
HasLogEntry(rows, revision_id) ==
    \E i \in 1..Len(rows) : rows[i].revision = revision_id

\* the snapshot without the ignored fields (the del loop); defined when all are there
Strip(content) ==
    [f \in DOMAIN content \ IgnoredFields |-> content[f]]

NoneContent == [is_none |-> TRUE, value |-> Strip(Snapshot("", Null))]
SomeContent(content) == [is_none |-> FALSE, value |-> content]

\* the update that ends handle(), without the intersection with the revisions
\* this run found without an entry
CorrectivePassAllOnceLive(rows, once_live, got_entries) ==
    [i \in 1..Len(rows) |->
        IF rows[i].revision \in once_live /\ ~rows[i].published
        THEN [rows[i] EXCEPT !.published = TRUE]
        ELSE rows[i]]

\* LogEntry.objects.filter(revision_id__in=..., published=False).update(published=True)
CorrectivePass(rows, once_live, got_entries) ==
    [i \in 1..Len(rows) |->
        IF rows[i].revision \in (once_live \cap got_entries) /\ ~rows[i].published
        THEN [rows[i] EXCEPT !.published = TRUE]
        ELSE rows[i]]

\* the keyword arguments of handle()'s call of log_action
BackfillKwargs(revision_id, rev, is_new_page, content_changed, published) ==
    [data |-> EmptyStr,
     revision |-> revision_id,
     user |-> rev.user,
     timestamp |-> rev.created_at,
     created |-> is_new_page,
     content_changed |-> content_changed,
     published |-> published]

\* ------------------------------------------- log entries of before the command
\* Before the command is first run, a page view logs a revision's save or publish
\* through log_action, revisions in the order of their ids.
LogRevision ==
    /\ pc = "idle"
    /\ runs = 0
    /\ Len(log_entries) < MaxLogged
    /\ \E r \in DOMAIN revisions, published \in BOOLEAN :
          /\ \A i \in 1..Len(log_entries) : log_entries[i].revision < r
          /\ log_entries' = Append(log_entries,
                 LogAction(PageInstance(revisions[r].page_id),
                           IF published THEN "wagtail.publish" ELSE "wagtail.edit",
                           [revision |-> r, user |-> revisions[r].user,
                            published |-> published, content_changed |-> TRUE],
                           NowTime).row)
    /\ UNCHANGED <<revisions, page_live, cmdvars, ret, regvars>>

\* ----------------------------------------------------------- Command.handle
\* lines 9-13: the run starts; the iterator is opened on the ordered table
Handle_Start ==
    /\ pc \in {"idle", "done", "crashed"}
    /\ runs < MaxRuns
    /\ runs' = runs + 1
    /\ first_run_ok' = (pc = "done")
    /\ pc' = "loop"
    /\ error' = ""
    /\ queue' = OrderBy(revisions, DOMAIN revisions)
    /\ current_page_id' = Null
    /\ previous_revision_content' = NoneContent
    /\ revisions_that_were_once_live' = {}
    /\ revision_that_got_log_entries' = {}
    /\ entries_at_start' = log_entries
    /\ visited' = {}
    /\ UNCHANGED <<dbvars, ret, regvars>>

\* lines 14-45: one iteration of the loop
Handle_Iterate ==
    /\ pc = "loop"
    /\ queue # << >>
    /\ LET id == Head(queue)
           revision == revisions[id]
           is_new_page == revision.page_id # current_page_id
           previous == IF is_new_page THEN NoneContent ELSE previous_revision_content
           content == revision.content
           once_live == IF "live_revision" \in DOMAIN content
                           /\ content["live_revision"] # Null
                        THEN revisions_that_were_once_live \cup {content["live_revision"]}
                        ELSE revisions_that_were_once_live
           stripped == SomeContent(Strip(content))
           missing == ~HasLogEntry(log_entries, id)
           content_changed == ~is_new_page /\ previous # stripped
           published == (id = page_live[revision.page_id])
           written == LogAction(PageInstance(revision.page_id),
                                IF published THEN "wagtail.publish" ELSE "wagtail.edit",
                                BackfillKwargs(id, revision, is_new_page,
                                               content_changed, published),
                                NowTime)
       IN  /\ visited' = visited \cup {id}
           /\ queue' = Tail(queue)
           /\ current_page_id' = revision.page_id
           /\ revisions_that_were_once_live' = once_live
           /\ IF ~(IgnoredFields \subseteq DOMAIN content)
              THEN \* del content[ignored_field] raises KeyError
                   /\ pc' = "crashed"
                   /\ error' = "KeyError"
                   /\ UNCHANGED <<log_entries, previous_revision_content,
                                  revision_that_got_log_entries>>
              ELSE IF missing /\ (content_changed \/ published) /\ written.raised
              THEN /\ pc' = "crashed"
                   /\ error' = written.exc
                   /\ revision_that_got_log_entries' =
                          revision_that_got_log_entries \cup {id}
                   /\ UNCHANGED <<log_entries, previous_revision_content>>
              ELSE /\ pc' = "loop"
                   /\ error' = ""
                   /\ revision_that_got_log_entries' =
                          IF missing THEN revision_that_got_log_entries \cup {id}
                          ELSE revision_that_got_log_entries
                   /\ log_entries' =
                          IF missing /\ (content_changed \/ published)
                          THEN Append(log_entries, written.row)
                          ELSE log_entries
                   /\ previous_revision_content' = stripped
    /\ UNCHANGED <<revisions, page_live, runs, entries_at_start, first_run_ok,
                   ret, regvars>>

\* lines 47-49: the iterator is exhausted; the update and the end of the run
Handle_Update ==
    /\ pc = "loop"
    /\ queue = << >>
    /\ log_entries' = CorrectivePass(log_entries, revisions_that_were_once_live,
                                     revision_that_got_log_entries)
    /\ pc' = "done"
    /\ UNCHANGED <<revisions, page_live, queue, current_page_id,
                   previous_revision_content, revisions_that_were_once_live,
                   revision_that_got_log_entries, error, runs, entries_at_start,
                   visited, first_run_ok, ret, regvars>>


\* ------------------------------------------------------------ initial states
CmdInit ==
    /\ pc = "idle"
    /\ queue = << >>
    /\ current_page_id = Null
    /\ previous_revision_content = NoneContent
    /\ revisions_that_were_once_live = {}
    /\ revision_that_got_log_entries = {}
    /\ error = ""
    /\ runs = 0
    /\ entries_at_start = << >>
    /\ visited = {}
    /\ first_run_ok = FALSE

\* what a revision's row is drawn from: its page, its title, and the page's live
\* revision when it was saved
RevisionChoices ==
    [page_id : PageIds, title : Titles, live_revision : {Absent, Null} \cup Revs]

\* a snapshot's live_revision is an earlier revision of the same page; only the
\* oldest revision of the table can predate the live_revision field.  Titles are
\* only ever compared with each other, so the oldest revision's is fixed.
ConsistentRevisions(choice) ==
    /\ choice[1].title = "t1"
    /\ \A r \in Revs :
           /\ choice[r].live_revision = Absent => r = 1
           /\ choice[r].live_revision \in Revs =>
                  /\ choice[r].live_revision < r
                  /\ choice[choice[r].live_revision].page_id = choice[r].page_id
    /\ Cardinality({r \in Revs : choice[r].live_revision \in Revs}) <= MaxPointers

DbInit ==
    \E choice \in [Revs -> RevisionChoices] :
        /\ ConsistentRevisions(choice)
        /\ revisions = [r \in Revs |->
               [page_id |-> choice[r].page_id,
                created_at |-> 100 + r,
                user |-> 10 + r,
                content |-> Snapshot(choice[r].title, choice[r].live_revision)]]
        /\ page_live \in [PageIds -> {Null} \cup Revs]
        /\ \A p \in PageIds :
               page_live[p] # Null => revisions[page_live[p]].page_id = p
        /\ log_entries = << >>

NoModel == [name |-> "", kind |-> "", is_model |-> FALSE, content_type |-> ""]

NoRet == [op |-> "none", raised |-> FALSE, exc |-> "", data_given |-> "",
          row |-> NoRow, rows |-> {}, model |-> NoModel, value |-> EmptyDict]

RegIdle ==
    /\ has_scanned_for_actions = FALSE
    /\ actions = [a \in {} |-> Null]
    /\ choices = << >>
    /\ messages = [a \in {} |-> Null]
    /\ tpc = << >>
    /\ tmethod = << >>
    /\ thook = << >>
    /\ tcall = << >>
    /\ invoked = << >>
    /\ registered = << >>

InitBackfill == DbInit /\ CmdInit /\ ret = NoRet /\ RegIdle

NextBackfill == LogRevision \/ Handle_Start \/ Handle_Iterate \/ Handle_Update

SpecBackfill == InitBackfill /\ [][NextBackfill]_vars


\* ------------------------------------------------- callers of the log store
ImageInstance ==
    [content_type |-> "image", pk |-> 7, has_display_title |-> FALSE,
     display_title |-> "", str |-> "Image object"]

Instances == {PageInstance(1), ImageInstance}

\* what a caller passes as data: nothing, {}, '' or {"k": "v"}
DataGiven == {"absent", "empty_dict", "empty_str", "dict"}

DataKwargs(given) ==
    CASE given = "absent" -> NoKwargs
      [] given = "empty_dict" -> [data |-> EmptyDict]
      [] given = "empty_str" -> [data |-> EmptyStr]
      [] given = "dict" -> [data |-> PyDict(<< << <<"k">>, <<"v">> >> >>)]

\* what get_for_model is called with: two model classes, a class that is no model,
\* a model instance and a string
ModelArgs ==
    {[name |-> "Page", kind |-> "class", is_model |-> TRUE, content_type |-> "page"],
     [name |-> "Image", kind |-> "class", is_model |-> TRUE, content_type |-> "image"],
     [name |-> "dict", kind |-> "class", is_model |-> FALSE, content_type |-> ""],
     [name |-> "a page", kind |-> "instance", is_model |-> FALSE, content_type |-> "page"],
     [name |-> "'Page'", kind |-> "str", is_model |-> FALSE, content_type |-> ""]}

LogActionCall ==
    /\ Len(log_entries) < MaxRows
    /\ \E instance \in Instances, given \in DataGiven,
          title \in {NoKwargs, [title |-> "Custom"]},
          more \in {NoKwargs, [published |-> TRUE], [timestamp |-> 5]} :
          LET result == LogAction(instance, "wagtail.edit",
                                  DataKwargs(given) @@ title @@ more, NowTime)
          IN  /\ ret' = [NoRet EXCEPT !.op = "log_action",
                                      !.raised = result.raised,
                                      !.exc = result.exc,
                                      !.data_given = given,
                                      !.row = result.row,
                                      !.value = IF result.raised THEN EmptyDict
                                                ELSE Data(result.row)]
              /\ log_entries' = IF result.raised THEN log_entries
                                ELSE Append(log_entries, result.row)
    /\ UNCHANGED <<revisions, page_live, cmdvars, regvars>>

GetForModelCall ==
    /\ \E model \in ModelArgs :
          LET result == GetForModel(model, log_entries)
          IN  ret' = [NoRet EXCEPT !.op = "get_for_model",
                                   !.raised = result.raised,
                                   !.exc = result.exc,
                                   !.model = model,
                                   !.rows = result.rows]
    /\ UNCHANGED <<dbvars, cmdvars, regvars>>

ReadData ==
    /\ \E i \in 1..Len(log_entries) :
          ret' = [NoRet EXCEPT !.op = "data",
                               !.row = log_entries[i],
                               !.value = Data(log_entries[i])]
    /\ UNCHANGED <<dbvars, cmdvars, regvars>>

InitLog ==
    /\ revisions = << >>
    /\ page_live = << >>
    /\ log_entries = << >>
    /\ CmdInit
    /\ ret = NoRet
    /\ RegIdle

NextLog == LogActionCall \/ GetForModelCall \/ ReadData

SpecLog == InitLog /\ [][NextLog]_vars

\* -------------------------------------------------------- LogActionRegistry
Threads == 1..MaxThreads

\* hooks.get_hooks('register_log_actions'): each callback is the register_action
\* calls it makes; the second callback registers wagtail.edit again
Hooks ==
    << << [action |-> "wagtail.edit", label |-> "Edit", message |-> "Edited"],
          [action |-> "wagtail.publish", label |-> "Publish", message |-> "Published"] >>,
       << [action |-> "wagtail.edit", label |-> "Save draft", message |-> "Draft saved"] >> >>

RECURSIVE Without(_, _)
Without(pairs, action) ==
    IF pairs = << >> THEN << >>
    ELSE (IF Head(pairs)[1] = action THEN << >> ELSE <<Head(pairs)>>)
         \o Without(Tail(pairs), action)

\* register_action that replaces the choice of an action registered before
RegisterActionReplaces(reg, call) ==
    [actions |-> (call.action :> <<call.label, call.message>>) @@ reg.actions,
     messages |-> (call.action :> call.message) @@ reg.messages,
     choices |-> Append(Without(reg.choices, call.action), <<call.action, call.label>>)]

\* LogActionRegistry.register_action
RegisterAction(reg, call) ==
    [actions |-> (call.action :> <<call.label, call.message>>) @@ reg.actions,
     messages |-> (call.action :> call.message) @@ reg.messages,
     choices |-> Append(reg.choices, <<call.action, call.label>>)]

\* get_actions, get_choices or get_messages is called: scan_for_actions reads the flag
Call(t) ==
    /\ tpc[t] = "idle"
    /\ \E method \in {"get_actions", "get_choices", "get_messages"} :
          tmethod' = [tmethod EXCEPT ![t] = method]
    /\ IF has_scanned_for_actions
       THEN /\ tpc' = [tpc EXCEPT ![t] = "returned"]
            /\ UNCHANGED <<thook, tcall>>
       ELSE /\ tpc' = [tpc EXCEPT ![t] = "scanning"]
            /\ thook' = [thook EXCEPT ![t] = 1]
            /\ tcall' = [tcall EXCEPT ![t] = 0]
    /\ UNCHANGED <<has_scanned_for_actions, actions, choices, messages, invoked,
                   registered, dbvars, cmdvars, ret>>

\* scan_for_actions: fn(self), the next callback is entered
InvokeHook(t) ==
    /\ tpc[t] = "scanning"
    /\ thook[t] <= Len(Hooks)
    /\ tcall[t] = 0
    /\ invoked' = [invoked EXCEPT ![thook[t]] = @ + 1]
    /\ tcall' = [tcall EXCEPT ![t] = 1]
    /\ UNCHANGED <<has_scanned_for_actions, actions, choices, messages, tpc, tmethod,
                   thook, registered, dbvars, cmdvars, ret>>

\* the callback's next call of register_action
Register(t) ==
    /\ tpc[t] = "scanning"
    /\ thook[t] <= Len(Hooks)
    /\ tcall[t] >= 1
    /\ LET call == Hooks[thook[t]][tcall[t]]
           reg == RegisterAction([actions |-> actions, messages |-> messages,
                                  choices |-> choices], call)
       IN  /\ actions' = reg.actions
           /\ messages' = reg.messages
           /\ choices' = reg.choices
           /\ registered' = Append(registered, call)
    /\ IF tcall[t] = Len(Hooks[thook[t]])
       THEN /\ thook' = [thook EXCEPT ![t] = @ + 1]
            /\ tcall' = [tcall EXCEPT ![t] = 0]
       ELSE /\ tcall' = [tcall EXCEPT ![t] = @ + 1]
            /\ UNCHANGED thook
    /\ UNCHANGED <<has_scanned_for_actions, tpc, tmethod, invoked, dbvars, cmdvars, ret>>

\* scan_for_actions: the loop is over, the flag is set, the getter returns
SetFlag(t) ==
    /\ tpc[t] = "scanning"
    /\ thook[t] > Len(Hooks)
    /\ has_scanned_for_actions' = TRUE
    /\ tpc' = [tpc EXCEPT ![t] = "returned"]
    /\ UNCHANGED <<actions, choices, messages, tmethod, thook, tcall, invoked,
                   registered, dbvars, cmdvars, ret>>

\* the request that made the call ends
EndRequest(t) ==
    /\ tpc[t] = "returned"
    /\ tpc' = [tpc EXCEPT ![t] = "idle"]
    /\ UNCHANGED <<has_scanned_for_actions, actions, choices, messages, tmethod,
                   thook, tcall, invoked, registered, dbvars, cmdvars, ret>>

InitRegistry ==
    /\ revisions = << >>
    /\ page_live = << >>
    /\ log_entries = << >>
    /\ CmdInit
    /\ ret = NoRet
    /\ has_scanned_for_actions = FALSE
    /\ actions = [a \in {} |-> Null]
    /\ choices = << >>
    /\ messages = [a \in {} |-> Null]
    /\ tpc = [t \in Threads |-> "idle"]
    /\ tmethod = [t \in Threads |-> "none"]
    /\ thook = [t \in Threads |-> 0]
    /\ tcall = [t \in Threads |-> 0]
    /\ invoked = [h \in 1..Len(Hooks) |-> 0]
    /\ registered = << >>

NextRegistry ==
    \E t \in Threads :
        Call(t) \/ InvokeHook(t) \/ Register(t) \/ SetFlag(t) \/ EndRequest(t)

SpecRegistry == InitRegistry /\ [][NextRegistry]_vars


\* ------------------------------------------------- what the claims speak of
Running == pc \in {"loop", "done", "crashed"}
Ended == pc \in {"done", "crashed"}

\* every snapshot of the table carries every field handle() deletes
SnapshotsComplete ==
    \A r \in DOMAIN revisions : IgnoredFields \subseteq DOMAIN revisions[r].content

\* the revisions of r's page created before r
EarlierOnPage(r) ==
    {q \in DOMAIN revisions : /\ revisions[q].page_id = revisions[r].page_id
                              /\ revisions[q].created_at < revisions[r].created_at}

IsFirstOfPage(r) == EarlierOnPage(r) = {}

PreviousOnPage(r) ==
    CHOOSE q \in EarlierOnPage(r) :
        \A o \in EarlierOnPage(r) : revisions[o].created_at <= revisions[q].created_at

ContentChangedOf(r) ==
    /\ ~IsFirstOfPage(r)
    /\ Strip(revisions[r].content) # Strip(revisions[PreviousOnPage(r)].content)

PublishedOf(r) == page_live[revisions[r].page_id] = r

\* some snapshot's live_revision field points to r
PointedTo(r) ==
    \E q \in DOMAIN revisions :
        /\ "live_revision" \in DOMAIN revisions[q].content
        /\ revisions[q].content["live_revision"] = r

HadEntry(r) == \E i \in 1..Len(entries_at_start) : entries_at_start[i].revision = r

EntriesOf(r) == {i \in 1..Len(log_entries) : log_entries[i].revision = r}

\* the positions of the entries the current run created
CreatedInRun == (Len(entries_at_start) + 1)..Len(log_entries)

\* C1: in the forward pass, a visited revision that had no log entry gets one if and
\* only if content_changed or published holds for it (content_changed: it is not its
\* page's first revision and its stripped snapshot differs from the previous one's;
\* published: it is the page's live revision), and the entry has action publish when
\* published else edit, created = first of its page, and those two flags.  Stated for
\* tables whose snapshots carry every ignored field.
C1_ForwardPassWritesEntry ==
    (pc \in {"loop", "crashed"} /\ SnapshotsComplete) =>
        \A r \in visited :
            ~HadEntry(r) =>
                /\ (EntriesOf(r) # {}) <=> (ContentChangedOf(r) \/ PublishedOf(r))
                /\ \A i \in EntriesOf(r) :
                       /\ log_entries[i].action =
                              (IF PublishedOf(r) THEN "wagtail.publish" ELSE "wagtail.edit")
                       /\ log_entries[i].created = IsFirstOfPage(r)
                       /\ log_entries[i].content_changed = ContentChangedOf(r)
                       /\ log_entries[i].published = PublishedOf(r)

\* r is live: the page's live revision, or the live revision some snapshot recorded
Live(r) == PublishedOf(r) \/ PointedTo(r)

HasEntryLike(r, action, created, content_changed, published) ==
    \E i \in EntriesOf(r) :
        /\ log_entries[i].action = action
        /\ log_entries[i].created = created
        /\ log_entries[i].content_changed = content_changed
        /\ log_entries[i].published = published

\* page p has exactly three revisions R1, R2, R3 in creation order: R1 live, R2 not
\* live and different from R1, R3 live and equal to R2; no log entry existed
ThreeRevisionScenario(p) ==
    LET on == {r \in DOMAIN revisions : revisions[r].page_id = p}
        order == OrderBy(revisions, on)
    IN  /\ Cardinality(on) = 3
        /\ SnapshotsComplete
        /\ entries_at_start = << >>
        /\ Live(order[1]) /\ ~Live(order[2]) /\ Live(order[3])
        /\ Strip(revisions[order[2]].content) # Strip(revisions[order[1]].content)
        /\ Strip(revisions[order[3]].content) = Strip(revisions[order[2]].content)

\* C2: on a page with revisions R1 (first, live), R2 (not live, content differs) and
\* R3 (live, content equal to R2) and no log entries, the finished command leaves
\* R1 {publish, created, not content_changed, published}, R2 {edit, not created,
\* content_changed, not published} and R3 {publish, not created, not content_changed,
\* published}.
C2_ThreeRevisionScenario ==
    \A p \in PageIds :
        (Ended /\ runs = 1 /\ ThreeRevisionScenario(p)) =>
            LET order == OrderBy(revisions,
                                 {r \in DOMAIN revisions : revisions[r].page_id = p})
            IN  /\ HasEntryLike(order[1], "wagtail.publish", TRUE, FALSE, TRUE)
                /\ HasEntryLike(order[2], "wagtail.edit", FALSE, TRUE, FALSE)
                /\ HasEntryLike(order[3], "wagtail.publish", FALSE, FALSE, TRUE)

C4_CorrectivePassPublishes ==
    (Ended /\ SnapshotsComplete) =>
        \A x \in DOMAIN revisions :
            (~HadEntry(x) /\ ContentChangedOf(x) /\ ~PublishedOf(x) /\ PointedTo(x)) =>
                /\ EntriesOf(x) # {}
                /\ \A i \in EntriesOf(x) : log_entries[i].published

\* C5: every write of the backfill through log_action succeeds, and the created row
\* carries the revision's creation time as its timestamp and the revision's user.
C5_BackfillWriteSucceeds ==
    Running =>
        /\ error # "TypeError"
        /\ \A i \in CreatedInRun :
               /\ log_entries[i].revision \in DOMAIN revisions
               /\ log_entries[i].timestamp = revisions[log_entries[i].revision].created_at
               /\ log_entries[i].user = revisions[log_entries[i].revision].user

\* C10: a run never modifies or deletes a log entry that existed when it started.
C10_ExistingEntriesUntouched ==
    Running =>
        /\ Len(log_entries) >= Len(entries_at_start)
        /\ \A i \in 1..Len(entries_at_start) : log_entries[i] = entries_at_start[i]

\* a run has completed; an unpublished entry that existed before it, of a revision
\* that a snapshot's live_revision points to, is as it was
C10_Witness ==
    /\ pc = "done"
    /\ \E i \in 1..Len(entries_at_start) :
           /\ ~entries_at_start[i].published
           /\ entries_at_start[i].revision \in revisions_that_were_once_live
           /\ i <= Len(log_entries)
           /\ log_entries[i] = entries_at_start[i]

\* C8: log_action called with data = {} or with no data stores the empty string in
\* data_json, and the created record's data accessor yields an empty mapping.
C8_EmptyDataIsEmptyString ==
    (ret.op = "log_action" /\ ~ret.raised
     /\ ret.data_given \in {"empty_dict", "absent"}) =>
        /\ ret.row.data_json = << >>
        /\ Data(ret.row) = EmptyDict

\* C9: get_for_model called with anything that is not a model class returns an empty
\* result and does not raise; called with a model class it returns exactly the
\* entries of that model's content type.
C9_GetForModelNeverRaises ==
    ret.op = "get_for_model" =>
        /\ ~ret.raised
        /\ IF ret.model.kind = "class" /\ ret.model.is_model
           THEN ret.rows = {i \in 1..Len(log_entries) :
                               log_entries[i].content_type = ret.model.content_type}
           ELSE ret.rows = {}

\* the last register_action call made for an action
LastRegistered(action) ==
    LET last == CHOOSE i \in 1..Len(registered) :
                    /\ registered[i].action = action
                    /\ \A j \in (i + 1)..Len(registered) : registered[j].action # action
    IN  registered[last]

\* C6: the choice list holds one (action, label) pair per register_action call made,
\* duplicates included, in the order of the calls, while the action and message
\* mappings hold each action's last registration.
C6_ChoicesKeepEveryRegistration ==
    /\ Len(choices) = Len(registered)
    /\ \A i \in 1..Len(registered) :
           choices[i] = <<registered[i].action, registered[i].label>>
    /\ DOMAIN actions = {registered[i].action : i \in 1..Len(registered)}
    /\ DOMAIN messages = DOMAIN actions
    /\ \A a \in DOMAIN actions :
           /\ actions[a] = <<LastRegistered(a).label, LastRegistered(a).message>>
           /\ messages[a] = LastRegistered(a).message

\* get_choices has returned after the scan; an action registered twice has both its
\* pairs in the choice list and its later label in the action mapping
C6_Witness ==
    /\ has_scanned_for_actions
    /\ \E t \in Threads : tpc[t] = "returned" /\ tmethod[t] = "get_choices"
    /\ \E i, j \in 1..Len(choices) :
           /\ i < j
           /\ choices[i][1] = choices[j][1]
           /\ choices[i][2] # choices[j][2]
           /\ \A k \in (j + 1)..Len(choices) : choices[k][1] # choices[j][1]
           /\ actions[choices[j][1]][1] = choices[j][2]

\* C7: over any calls of the getters, from several request threads too, each hook
\* callback is invoked exactly once, and what was registered is not duplicated.
C7_EachHookInvokedOnce ==
    /\ \A h \in DOMAIN invoked : invoked[h] <= 1
    /\ has_scanned_for_actions => \A h \in DOMAIN invoked : invoked[h] = 1

====
